---- MODULE Spec2Model ----
(***************************************************************************)
(* Model of i3::core::Prng (src/i3prng.h): the xorshift128 generator, its  *)
(* bounded-value helpers, the state accessor/constructor pair and the      *)
(* parameterized split.                                                    *)
(*                                                                         *)
(* A 32-bit word is the pair <<hi, lo>> of its 16-bit halves, because the  *)
(* model checker's integers are narrower than uint64_t and no wider than   *)
(* int32_t.  A signed 32-bit integer is its two's-complement bit pattern,  *)
(* held in the same pair.                                                  *)
(***************************************************************************)
EXTENDS Integers, Sequences, FiniteSets, TLC

\* ------------------------------------------------------------------------
\* Bounds of the model
\* ------------------------------------------------------------------------

\* number of operations performed on the generators in one run
MaxOps == 3

\* number of operations in one run of the round-trip specification
MaxRun == 8

\* ------------------------------------------------------------------------
\* 32-bit word arithmetic (uint32_t, int32_t)
\* ------------------------------------------------------------------------

Half == 2^16

SignBit == 2^15

W(hi, lo) == <<hi, lo>>

ZeroWord == W(0, 0)

OneWord == W(0, 1)

\* std::numeric_limits<uint32_t>::max(), UINT32_MAX
UINT32_MAX == W(Half - 1, Half - 1)

INT32_MAX == W(SignBit - 1, Half - 1)

INT32_MIN == W(SignBit, 0)

MinusOne == W(Half - 1, Half - 1)

RECURSIVE XorBits(_, _, _)
XorBits(x, y, k) ==
    IF k = 0 THEN 0
    ELSE ((x + y) % 2) + 2 * XorBits(x \div 2, y \div 2, k - 1)

\* operator ^ on bytes, tabulated
XorByte == [x \in 0..255 |-> [y \in 0..255 |-> XorBits(x, y, 8)]]

Xor16(x, y) == XorByte[x % 256][y % 256] + 256 * XorByte[x \div 256][y \div 256]

\* operator ^ on uint32_t
XOR(u, v) == W(Xor16(u[1], v[1]), Xor16(u[2], v[2]))

\* operator << on uint32_t: bits shifted past bit 31 are dropped
Shl(w, k) ==
    IF k < 16
    THEN W(((w[1] * 2^k) % Half) + (w[2] \div 2^(16 - k)), (w[2] * 2^k) % Half)
    ELSE W((w[2] * 2^(k - 16)) % Half, 0)

\* operator >> on uint32_t: logical, zero fill
Shr(w, k) ==
    IF k < 16
    THEN W(w[1] \div 2^k, (w[2] \div 2^k) + ((w[1] % 2^k) * 2^(16 - k)))
    ELSE W(0, w[1] \div 2^(k - 16))

\* operator < on uint32_t
Lt(u, v) == u[1] < v[1] \/ (u[1] = v[1] /\ u[2] < v[2])

Le(u, v) == u = v \/ Lt(u, v)

\* operator + on uint32_t: wraps modulo 2^32
Add32(u, v) ==
    LET lo == u[2] + v[2]
        hi == u[1] + v[1] + (lo \div Half)
    IN  W(hi % Half, lo % Half)

\* operator - on uint32_t: wraps modulo 2^32
Sub32(u, v) ==
    LET lo == u[2] - v[2] + Half
        hi == u[1] - v[1] + Half - (IF lo < Half THEN 1 ELSE 0)
    IN  W(hi % Half, lo % Half)

\* sign of an int32_t held as its bit pattern
IsNeg(w) == w[1] >= SignBit

Flip(w) == W((w[1] + SignBit) % Half, w[2])

\* operator < on int32_t
SLt(u, v) == Lt(Flip(u), Flip(v))

SLe(u, v) == u = v \/ SLt(u, v)

\* the mathematical value of x - y does not fit int32_t
SubOverflows(x, y) == IsNeg(x) # IsNeg(y) /\ IsNeg(Sub32(x, y)) # IsNeg(x)

\* the mathematical value of x + y does not fit int32_t
AddOverflows(x, y) == IsNeg(x) = IsNeg(y) /\ IsNeg(Add32(x, y)) # IsNeg(x)

\* ------------------------------------------------------------------------
\* 64-bit product (uint64_t), as eight 8-bit limbs, least significant first
\* ------------------------------------------------------------------------

Limbs4(w) == <<w[2] % 256, w[2] \div 256, w[1] % 256, w[1] \div 256>>

Col(x, y, k) ==
    LET T(i) == IF (k - i) \in 0..3 THEN x[i + 1] * y[k - i + 1] ELSE 0
    IN  T(0) + T(1) + T(2) + T(3)

RECURSIVE MulLimbs(_, _, _, _)
MulLimbs(x, y, k, carry) ==
    IF k = 8 THEN <<>>
    ELSE LET tot == Col(x, y, k) + carry
         IN  <<tot % 256>> \o MulLimbs(x, y, k + 1, tot \div 256)

\* n * uint64_t{r}
Mul64(n, r) == MulLimbs(Limbs4(n), Limbs4(r), 0, 0)

\* operator >> 32 on uint64_t
Shr64by32(p) == <<p[5], p[6], p[7], p[8], 0, 0, 0, 0>>

\* uint32_t(x) of a uint64_t: the low 32 bits
Trunc32(p) == W(p[4] * 256 + p[3], p[2] * 256 + p[1])

\* ------------------------------------------------------------------------
\* Single-precision values (float), as sig * 2^exp with sig <= 2^24
\* ------------------------------------------------------------------------

\* number of significant bits of a 16-bit half
RECURSIVE BitLen(_)
BitLen(v) == IF v = 0 THEN 0 ELSE 1 + BitLen(v \div 2)

\* position of the most significant set bit of a word, -1 for zero
MsbPos(w) == IF w[1] > 0 THEN 15 + BitLen(w[1]) ELSE BitLen(w[2]) - 1

\* conversion uint32_t -> float: 24 significant bits, round to nearest,
\* ties to even
ToFloat(w) ==
    LET p == MsbPos(w)
        s == IF p > 23 THEN p - 23 ELSE 0
        q == Shr(w, s)
        qv == q[1] * Half + q[2]
        rem == w[2] % 2^s
        half == IF s = 0 THEN 1 ELSE 2^(s - 1)
        up == s > 0 /\ (rem > half \/ (rem = half /\ qv % 2 = 1))
    IN  [sig |-> IF up THEN qv + 1 ELSE qv, exp |-> s]

\* constexpr float reciprocal = 1.0 / UINT32_MAX: 1/(2^32-1) is
\* 2^-32 * (1 + 2^-32 + ...), whose 24-bit significand rounds to 1.0
reciprocal == [sig |-> 1, exp |-> 0 - 32]

\* operator * on float; the significand product is exact here (<= 2^24)
FloatMul(x, y) == [sig |-> x.sig * y.sig, exp |-> x.exp + y.exp]

\* ------------------------------------------------------------------------
\* Prng
\* ------------------------------------------------------------------------

\* struct State { uint32_t a, b, c, d; }
St(a, b, c, d) == [a |-> a, b |-> b, c |-> c, d |-> d]

ZeroState == St(ZeroWord, ZeroWord, ZeroWord, ZeroWord)

\* variant of Prng(State): the initialiser list takes c and d in the wrong order
Prng_State_swapped(state) == [a |-> state.a, b |-> state.b, c |-> state.d, d |-> state.c]

\* Prng(State state) : _state{state} {}
Prng_State(state) == [a |-> state.a, b |-> state.b, c |-> state.c, d |-> state.d]

\* State state() const { return _state; }
state(s) == [a |-> s.a, b |-> s.b, c |-> s.c, d |-> s.d]

\* variant of random32: t ^= t << 13
random32_shift13(s) ==
    LET t1 == XOR(s.d, Shl(s.d, 13))
        t2 == XOR(t1, Shr(t1, 8))
        a1 == XOR(XOR(t2, s.a), Shr(s.a, 19))
    IN  [state |-> St(a1, s.a, s.b, s.c), raw |-> a1, value |-> a1]

\* variant of random32: t = t << 11
random32_assign(s) ==
    LET t1 == Shl(s.d, 11)
        t2 == XOR(t1, Shr(t1, 8))
        a1 == XOR(XOR(t2, s.a), Shr(s.a, 19))
    IN  [state |-> St(a1, s.a, s.b, s.c), raw |-> a1, value |-> a1]

\* variant of random32: an all-zero result state is replaced by (1,0,0,0)
random32_guard(s) ==
    LET t1 == XOR(s.d, Shl(s.d, 11))
        t2 == XOR(t1, Shr(t1, 8))
        a1 == XOR(XOR(t2, s.a), Shr(s.a, 19))
        a2 == IF St(a1, s.a, s.b, s.c) = ZeroState THEN OneWord ELSE a1
    IN  [state |-> St(a2, s.a, s.b, s.c), raw |-> a2, value |-> a2]

\* uint32_t random32()
random32(s) ==
    LET t0 == s.d
        s0 == s.a
        d1 == s.c
        c1 == s.b
        b1 == s0
        t1 == XOR(t0, Shl(t0, 11))
        t2 == XOR(t1, Shr(t1, 8))
        a1 == XOR(XOR(t2, s0), Shr(s0, 19))
    IN  [state |-> St(a1, b1, c1, d1), raw |-> a1, value |-> a1]

\* variant of random: the product is not shifted down
random_noshift(s, n) ==
    LET r == random32(s)
    IN  [state |-> r.state, raw |-> r.raw, value |-> Trunc32(Mul64(n, r.value))]

\* variant of random: n == 0 returns 0 before a value is drawn
random_early(s, n) ==
    LET r == random32(s)
    IN  IF n = ZeroWord THEN [state |-> s, raw |-> ZeroWord, value |-> ZeroWord]
        ELSE [state |-> r.state, raw |-> r.raw,
              value |-> Trunc32(Shr64by32(Mul64(n, r.value)))]

\* uint32_t random(uint32_t n)
random(s, n) ==
    LET r == random32(s)
    IN  [state |-> r.state, raw |-> r.raw,
         value |-> Trunc32(Shr64by32(Mul64(n, r.value)))]

\* variant of random0toN: n + 1 is computed for every n
random0toN_wrap(s, n) == random(s, Add32(n, OneWord))

\* uint32_t random0toN(uint32_t n)
random0toN(s, n) ==
    IF Lt(n, UINT32_MAX) THEN random(s, Add32(n, OneWord)) ELSE random32(s)

\* values an int32_t expression may yield after signed overflow (undefined
\* behaviour): the wrapped bit pattern of the usual build, or another word
UBWords == {INT32_MAX, UINT32_MAX}

\* operator - on int32_t
SignedSub(x, y) ==
    IF SubOverflows(x, y) THEN {Sub32(x, y)} \cup UBWords ELSE {Sub32(x, y)}

\* operator + on int32_t
SignedAdd(x, y) ==
    IF AddOverflows(x, y) THEN {Add32(x, y)} \cup UBWords ELSE {Add32(x, y)}

\* std::minmax(i, j)
minmax(i, j) ==
    IF SLt(j, i) THEN [first |-> j, second |-> i] ELSE [first |-> i, second |-> j]

\* int32_t randomRange(int32_t i, int32_t j): the set of possible outcomes
\* (one outcome unless a signed operation overflows)
randomRange(s, i, j) ==
    LET mm == minmax(i, j)
    IN  UNION { LET r == random0toN(s, unsignedDiff)
                IN  { [state |-> r.state, raw |-> r.raw, value |-> v] :
                        v \in SignedAdd(mm.first, r.value) } :
                unsignedDiff \in SignedSub(mm.second, mm.first) }

\* double randomReal()
randomReal(s) ==
    LET r == random32(s)
    IN  [state |-> r.state, raw |-> r.raw,
         value |-> FloatMul(reciprocal, ToFloat(r.value))]

\* ------------------------------------------------------------------------
\* Parameterized split
\* ------------------------------------------------------------------------

\* the four bytes of a uint32_t in memory order
ValueBytes(w, le) ==
    IF le THEN <<w[2] % 256, w[2] \div 256, w[1] % 256, w[1] \div 256>>
    ELSE <<w[1] \div 256, w[1] % 256, w[2] \div 256, w[2] % 256>>

\* the 16 bytes of a State: words a, b, c, d, each little-endian
StateBytes(s) ==
    ValueBytes(s.a, TRUE) \o ValueBytes(s.b, TRUE)
        \o ValueBytes(s.c, TRUE) \o ValueBytes(s.d, TRUE)

\* domain tag of the parameterized split
ParamSplitTag == W(0, 3)

\* eight 16-bit lanes, byte k of the buffer folded into lane (k-1) % 8
RECURSIVE Absorb(_, _, _)
Absorb(lanes, bytes, k) ==
    IF k > Len(bytes) THEN lanes
    ELSE Absorb([lanes EXCEPT ![((k - 1) % 8) + 1] = (@ * 31 + bytes[k] + k) % Half],
                bytes, k + 1)

HashStart(tag) == <<tag[1], tag[2], 40503, 31161, 9279, 27272, 47073, 20834>>

\* the shared hash routine: bytes -> State, never the all-zero state
Hash(tag, bytes) ==
    LET l == Absorb(HashStart(tag), bytes, 1)
        folded == St(W(l[1], l[2]), W(l[3], l[4]), W(l[5], l[6]), W(l[7], l[8]))
        h == random32(random32(folded).state).state
    IN  IF h = ZeroState THEN [h EXCEPT !.d = OneWord] ELSE h

\* Prng(const Prng &prng, std::vector<byte> &parameterBuffer)
Prng_Split(prng, parameterBuffer) ==
    Hash(ParamSplitTag, StateBytes(prng) \o parameterBuffer)

\* variant of the template constructor: the buffer is left empty
Prng_SplitValue_empty(prng, parameter, le) == Prng_Split(prng, <<>>)

\* template<T> Prng(const Prng &prng, T parameter), T = uint32_t
Prng_SplitValue(prng, parameter, le) ==
    LET buffer == ValueBytes(parameter, le)
    IN  Prng_Split(prng, buffer)

\* ------------------------------------------------------------------------
\* Inputs
\* ------------------------------------------------------------------------

\* arguments n of random and random0toN
NValues == {ZeroWord, W(0, 1000), W(Half - 1, Half - 2), UINT32_MAX}

\* arguments i, j of randomRange
IValues == {INT32_MIN, MinusOne, OneWord, INT32_MAX}

\* parameter buffers and parameter values of the split
ParamBuffers == {<<>>, <<1, 0, 0, 0>>}

ParamValues == {OneWord}

\* states handed to Prng(State)
InitStates ==
    { St(OneWord, W(0, 2), W(0, 3), W(0, 4)),
      ZeroState,
      St(ZeroWord, ZeroWord, ZeroWord, W(SignBit, 0)),
      St(W(65535, 57344), ZeroWord, ZeroWord, ZeroWord),
      St(W(65535, 57345), ZeroWord, ZeroWord, ZeroWord) }

\* ------------------------------------------------------------------------
\* State machine
\* ------------------------------------------------------------------------

Names == {"g", "h"}

NoGen == [none |-> TRUE]

\* member functions that call random32 once per call
StepOps == {"random32", "random", "random0toN", "randomRange", "randomReal"}

VARIABLES gen, log, child, splits, op, who, args, ret, nops

vars == <<gen, log, child, splits, op, who, args, ret, nops>>

Init ==
    /\ \E st \in InitStates :
          gen = [x \in Names |-> IF x = "g" THEN Prng_State(st) ELSE NoGen]
    /\ log = [x \in Names |-> <<>>]
    /\ child = NoGen
    /\ splits = <<>>
    /\ op = "Prng"
    /\ who = "g"
    /\ args = <<>>
    /\ ret = ZeroWord
    /\ nops = 0

Live(x) == gen[x] # NoGen

\* the generator x takes one of the outcomes of a stepping member function
Stepped(x, name, a, outcomes) ==
    \E out \in outcomes :
        /\ gen' = [gen EXCEPT ![x] = out.state]
        /\ log' = [log EXCEPT ![x] = Append(@, out.raw)]
        /\ ret' = out.value
        /\ op' = name
        /\ who' = x
        /\ args' = a
        /\ nops' = nops + 1
        /\ UNCHANGED <<child, splits>>

Random32(x) ==
    /\ nops < MaxOps
    /\ Live(x)
    /\ Stepped(x, "random32", <<>>, {random32(gen[x])})

Random(x, n) ==
    /\ nops < MaxOps
    /\ Live(x)
    /\ Stepped(x, "random", <<n>>, {random(gen[x], n)})

Random0toN(x, n) ==
    /\ nops < MaxOps
    /\ Live(x)
    /\ Stepped(x, "random0toN", <<n>>, {random0toN(gen[x], n)})

RandomRange(x, i, j) ==
    /\ nops < MaxOps
    /\ Live(x)
    /\ Stepped(x, "randomRange", <<i, j>>, randomRange(gen[x], i, j))

RandomReal(x) ==
    /\ nops < MaxOps
    /\ Live(x)
    /\ Stepped(x, "randomReal", <<>>, {randomReal(gen[x])})

\* Prng h(g.state()): both output logs restart here
Restored ==
    /\ Live("g")
    /\ gen' = [gen EXCEPT !["h"] = Prng_State(state(gen["g"]))]
    /\ log' = [x \in Names |-> <<>>]
    /\ op' = "restore"
    /\ who' = "g"
    /\ args' = <<>>
    /\ nops' = nops + 1
    /\ UNCHANGED <<child, splits, ret>>

Restore ==
    /\ nops < MaxOps
    /\ Restored

Split(x, bytes, constructed) ==
    \E c \in {constructed} :
        /\ child' = c
        /\ splits' = Append(splits, [by |-> x, src |-> gen[x], params |-> bytes, child |-> c])
        /\ op' = "split"
        /\ who' = x
        /\ args' = <<bytes>>
        /\ nops' = nops + 1
        /\ UNCHANGED <<gen, log, ret>>

SplitBuffer(x, p) ==
    /\ nops < MaxOps
    /\ Live(x)
    /\ Split(x, p, Prng_Split(gen[x], p))

\* the byte order is the platform's; the model leaves it open at each call
SplitValue(x, v, littleEndian) ==
    /\ nops < MaxOps
    /\ Live(x)
    /\ Split(x, ValueBytes(v, littleEndian),
             Prng_SplitValue(gen[x], v, littleEndian))

Next ==
    \/ \E x \in Names : Random32(x)
    \/ \E x \in Names, n \in NValues : Random(x, n)
    \/ \E x \in Names, n \in NValues : Random0toN(x, n)
    \/ \E x \in Names, i \in IValues, j \in IValues : RandomRange(x, i, j)
    \/ \E x \in Names : RandomReal(x)
    \/ Restore
    \/ \E x \in Names, p \in ParamBuffers : SplitBuffer(x, p)
    \/ \E x \in Names, v \in ParamValues, le \in BOOLEAN : SplitValue(x, v, le)

Spec == Init /\ [][Next]_vars

\* ------------------------------------------------------------------------
\* Round-trip specification: longer runs of state()/Prng(State) and random32
\* ------------------------------------------------------------------------

LongRandom32(x) ==
    /\ nops < MaxRun
    /\ Live(x)
    /\ Stepped(x, "random32", <<>>, {random32(gen[x])})

LongRestore ==
    /\ nops < MaxRun
    /\ Restored

NextRoundTrip ==
    \/ \E x \in Names : LongRandom32(x)
    \/ LongRestore

SpecRoundTrip == Init /\ [][NextRoundTrip]_vars

\* ------------------------------------------------------------------------
\* Properties
\* ------------------------------------------------------------------------

\* 64-bit values as four 16-bit limbs <<l3, l2, l1, l0>>, most significant
\* first; the product n * r by Horner's rule over the bytes of r
Add64(x, y) ==
    LET s0 == x[4] + y[4]
        s1 == x[3] + y[3] + (s0 \div Half)
        s2 == x[2] + y[2] + (s1 \div Half)
        s3 == x[1] + y[1] + (s2 \div Half)
    IN  <<s3 % Half, s2 % Half, s1 % Half, s0 % Half>>

Times256(x) ==
    LET s0 == x[4] * 256
        s1 == x[3] * 256 + (s0 \div Half)
        s2 == x[2] * 256 + (s1 \div Half)
        s3 == x[1] * 256 + (s2 \div Half)
    IN  <<s3 % Half, s2 % Half, s1 % Half, s0 % Half>>

TimesByte(n, b) ==
    LET lo == n[2] * b
        hi == n[1] * b + (lo \div Half)
    IN  <<0, hi \div Half, hi % Half, lo % Half>>

Product(n, r) ==
    LET b3 == r[1] \div 256
        b2 == r[1] % 256
        b1 == r[2] \div 256
        b0 == r[2] % 256
        p3 == TimesByte(n, b3)
        p2 == Add64(Times256(p3), TimesByte(n, b2))
        p1 == Add64(Times256(p2), TimesByte(n, b1))
    IN  Add64(Times256(p1), TimesByte(n, b0))

\* floor(n * r / 2^32)
FloorProduct(n, r) == LET p == Product(n, r) IN W(p[1], p[2])

\* x <= 1 and x = 1 for a value sig * 2^exp
LeOne(x) ==
    IF x.exp >= 0 THEN x.sig = 0 \/ (x.exp = 0 /\ x.sig = 1)
    ELSE IF 0 - x.exp <= 30 THEN x.sig <= 2^(0 - x.exp)
    ELSE LET k == 0 - x.exp - 30
         IN  \/ x.sig \div 2^k < 2^30
             \/ (x.sig \div 2^k = 2^30 /\ x.sig % 2^k = 0)

IsOne(x) ==
    IF x.exp >= 0 THEN x.exp = 0 /\ x.sig = 1
    ELSE 0 - x.exp <= 30 /\ x.sig = 2^(0 - x.exp)

RawOf(l, x) == l[x][Len(l[x])]

LastRaw(x) == RawOf(log, x)

\* C1: one call of random32 on state (a,b,c,d) leaves the state (a', a, b, c)
\* and returns a', with t1 = d XOR (d << 11), t2 = t1 XOR (t1 >> 8),
\* a' = t2 XOR a XOR (a >> 19), all shifts logical on 32-bit words.
C1_StepContract ==
    [][op' = "random32" =>
         LET s == gen[who']
             t1 == XOR(s.d, Shl(s.d, 11))
             t2 == XOR(t1, Shr(t1, 8))
             aNew == XOR(XOR(t2, s.a), Shr(s.a, 19))
         IN  /\ gen'[who'] = St(aNew, s.a, s.b, s.c)
             /\ ret' = aNew]_vars

\* the first output from state (1,2,3,4) is 8229
C1_Witness ==
    /\ op = "random32"
    /\ nops = 1
    /\ gen["g"] = St(W(0, 8229), OneWord, W(0, 2), W(0, 3))
    /\ ret = W(0, 8229)

\* C2: random(n) returns floor(n * r / 2^32) for the raw output r of one
\* step: a value in [0, n-1] when n >= 1 and exactly 0 when n = 0.
C2_UniformBelow ==
    [][op' = "random" =>
         LET n == args'[1]
             r == random32(gen[who']).value
         IN  /\ ret' = FloorProduct(n, r)
             /\ n = ZeroWord => ret' = ZeroWord
             /\ n # ZeroWord => Lt(ret', n)]_vars

\* random(1000) on the raw output 0xFFFFFFFE returns 999
C2_Witness ==
    /\ op = "random"
    /\ args = <<W(0, 1000)>>
    /\ LastRaw(who) = W(65535, 65534)
    /\ ret = W(0, 999)

\* C3: random0toN(n) returns a value in [0, n]; for n < 2^32-1 it is
\* random(n+1) with n+1 not wrapping, for n = 2^32-1 it is the raw output.
C3_UniformUptoInclusive ==
    [][op' = "random0toN" =>
         LET n == args'[1]
             s == gen[who']
         IN  /\ Le(ret', n)
             /\ Lt(n, UINT32_MAX) =>
                   /\ Add32(n, OneWord) # ZeroWord
                   /\ ret' = random(s, Add32(n, OneWord)).value
             /\ n = UINT32_MAX => ret' = random32(s).value]_vars

\* random0toN(2^32-1) hands the raw output 0xFFFFFFFE through
C3_Witness ==
    /\ op = "random0toN"
    /\ args = <<UINT32_MAX>>
    /\ ret = W(65535, 65534)

\* C4: randomRange(i, j) returns v with min(i,j) <= v <= max(i,j) for every
\* pair of signed 32-bit integers, in either order.
C4_RangeInclusive ==
    [][op' = "randomRange" =>
         LET mm == minmax(args'[1], args'[2])
         IN  SLe(mm.first, ret') /\ SLe(ret', mm.second)]_vars

\* outputs of g and h since the last restore agree position by position
LogsAgree ==
    \A k \in 1..Len(log["g"]) : k <= Len(log["h"]) => log["g"][k] = log["h"][k]

\* C5: Prng(g.state()) has g's state, leaves g unchanged, alters no supplied
\* state (the all-zero one included), and the restored generator's next N
\* outputs equal g's next N outputs.
C5_RoundTrip ==
    [][/\ op' = "restore" =>
            /\ gen'["h"] = gen["g"]
            /\ state(gen'["h"]) = state(gen["g"])
            /\ gen'["g"] = gen["g"]
       /\ LogsAgree']_vars

\* h was restored from g, and both have produced three outputs since
C5_Witness ==
    /\ Len(log["g"]) = 3
    /\ Len(log["h"]) = 3
    /\ log["g"][3] # ZeroWord
    /\ gen["h"] = gen["g"]

C7_ZeroFixedPoint ==
    [][(op' \in StepOps /\ gen[who'] = ZeroState) =>
         /\ gen'[who'] = ZeroState
         /\ RawOf(log', who') = ZeroWord
         /\ op' = "random32" => ret' = ZeroWord]_vars

C7_Witness ==
    /\ op = "random32"
    /\ Len(log["g"]) = 3
    /\ gen["g"] = ZeroState
    /\ ret = ZeroWord

\* C8: randomReal returns x with 0 <= x <= 1, and x = 1 only when the raw
\* output is 2^32-1.
C8_UniformReal ==
    [][op' = "randomReal" =>
         /\ ret'.sig >= 0
         /\ LeOne(ret')
         /\ IsOne(ret') => RawOf(log', who') = UINT32_MAX]_vars

\* C9: a step-consuming operation never takes a state other than (0,0,0,0)
\* to (0,0,0,0), and two generators with different states step to
\* different states.
C9_NonDegenerate ==
    [][/\ (op' \in StepOps /\ gen[who'] # ZeroState) => gen'[who'] # ZeroState
       /\ (Live("g") /\ Live("h") /\ gen["g"] # gen["h"])
            => random32(gen["g"]).state # random32(gen["h"]).state]_vars

\* a step from (0,0,0,2^31): only word a is set afterwards
C9_Witness ==
    /\ op \in StepOps
    /\ nops = 1
    /\ gen["g"].a # ZeroWord
    /\ gen["g"].b = ZeroWord
    /\ gen["g"].c = ZeroWord
    /\ gen["g"].d = ZeroWord

\* C10: random, random0toN, randomRange and randomReal advance the
\* generator by exactly one step, whatever their arguments.
C10_OneStep ==
    [][op' \in (StepOps \ {"random32"}) =>
         /\ gen'[who'] = random32(gen[who']).state
         /\ \A y \in Names \ {who'} : gen'[y] = gen[y]]_vars

\* random0toN(2^32-1) took g from (1,2,3,4) to the state one step on
C10_Witness ==
    /\ op = "random0toN"
    /\ args = <<UINT32_MAX>>
    /\ nops = 1
    /\ gen["g"] = St(W(0, 8229), OneWord, W(0, 2), W(0, 3))

====
